---------------------------- MODULE Spec2Model ----------------------------
(***************************************************************************)
(* A model of MiniCTDriver (src/minict/minict.py): the caller's thread     *)
(* issuing Command API operations, the listener thread running             *)
(* _receive_pkt, the serial port between them and the instrument at the    *)
(* other end of the line.                                                  *)
(*                                                                         *)
(* Text is modelled as sequences of one-character strings, so that the     *)
(* driver's regular expressions, split, strip, float and format are        *)
(* computed character by character.  A float is the pair                   *)
(* <<mantissa, decimals>> with trailing zero decimals removed, so that     *)
(* "1", "1.0" and "1.00" are the same number.                              *)
(*                                                                         *)
(* Each thread moves in steps that read or write shared attributes at      *)
(* most once: the interpreter may switch threads between any two of them.  *)
(* The attributes _last and _configured are written and never read; they   *)
(* are left out.  The port does not fail here: no read or write raises.    *)
(***************************************************************************)
EXTENDS Integers, Sequences, FiniteSets, TLC

\* ------------------------------------------------------------------ bounds
\* Lines the instrument sends in one run.
MaxLines == 1
\* Command API calls the caller makes in one run.
MaxCalls == 2

\* -------------------------------------------------------------------- text
Digits == {"0", "1", "2", "3", "4", "5", "6", "7", "8", "9"}

\* str.strip() / rstrip() without argument remove these.
Whitespace == {" ", "\t", "\r", "\n"}

CRLF == <<"\r", "\n">>

DigitValue(c) ==
    CASE c = "0" -> 0 [] c = "1" -> 1 [] c = "2" -> 2 [] c = "3" -> 3
      [] c = "4" -> 4 [] c = "5" -> 5 [] c = "6" -> 6 [] c = "7" -> 7
      [] c = "8" -> 8 [] c = "9" -> 9

DigitChar(d) == <<"0", "1", "2", "3", "4", "5", "6", "7", "8", "9">>[d + 1]

Min(S) == CHOOSE x \in S : \A y \in S : x <= y

Max(S) == CHOOSE x \in S : \A y \in S : y <= x

\* s[-n:]
Suffix(s, n) == IF Len(s) <= n THEN s ELSE SubSeq(s, Len(s) - n + 1, Len(s))

\* str.rstrip(chars)
RECURSIVE rstrip(_, _)
rstrip(s, chars) ==
    IF s # <<>> /\ s[Len(s)] \in chars
    THEN rstrip(SubSeq(s, 1, Len(s) - 1), chars)
    ELSE s

\* str.lstrip(chars)
RECURSIVE lstrip(_, _)
lstrip(s, chars) ==
    IF s # <<>> /\ s[1] \in chars THEN lstrip(Tail(s), chars) ELSE s

\* str.strip(chars)
strip(s, chars) == lstrip(rstrip(s, chars), chars)

\* str.split(sep) for a non-empty separator: the fields between the
\* occurrences of sep, read left to right.
RECURSIVE split_at(_, _)
split_at(s, sep) ==
    LET n == Len(sep)
        hits == {i \in 1..(Len(s) - n + 1) : SubSeq(s, i, i + n - 1) = sep}
    IN  IF hits = {}
        THEN <<s>>
        ELSE LET i == Min(hits)
             IN  <<SubSeq(s, 1, i - 1)>> \o split_at(SubSeq(s, i + n, Len(s)), sep)

\* str.split(sep): ValueError("empty separator") when sep is "".
split(s, sep) ==
    IF sep = <<>>
    THEN [ok |-> FALSE, v |-> <<>>]
    ELSE [ok |-> TRUE, v |-> split_at(s, sep)]

\* The integer a run of decimal digits writes.
RECURSIVE DigitsToInt(_)
DigitsToInt(s) ==
    IF s = <<>> THEN 0
    ELSE 10 * DigitsToInt(SubSeq(s, 1, Len(s) - 1)) + DigitValue(s[Len(s)])

\* <<mantissa, decimals>> without trailing zero decimals.
RECURSIVE Normal(_, _)
Normal(m, d) ==
    IF d > 0 /\ m % 10 = 0 THEN Normal(m \div 10, d - 1) ELSE <<m, d>>

\* float(s) on decimal literals: optional surrounding whitespace, an
\* optional sign, digits with at most one point and at least one digit.
\* Anything else over the model's alphabet is a ValueError.  (Exponents,
\* inf, nan and digit-group underscores do not occur in the lines of the
\* model.)
float(s) ==
    LET t == strip(s, Whitespace)
        signed == t # <<>> /\ t[1] \in {"+", "-"}
        body == IF signed THEN Tail(t) ELSE t
        points == {i \in 1..Len(body) : body[i] = "."}
        digits == SelectSeq(body, LAMBDA c : c \in Digits)
        fine == /\ digits # <<>>
                /\ Cardinality(points) <= 1
                /\ \A i \in 1..Len(body) : body[i] \in Digits \cup {"."}
        decimals == IF points = {} THEN 0 ELSE Len(body) - Min(points)
        m == DigitsToInt(digits)
    IN  IF fine
        THEN [ok |-> TRUE,
              v |-> Normal(IF signed /\ t[1] = "-" THEN 0 - m ELSE m, decimals)]
        ELSE [ok |-> FALSE, v |-> <<0, 0>>]

\* [float(value) for value in fields]: a ValueError at the first field
\* that is no number.
floats(fields) ==
    IF \A i \in 1..Len(fields) : float(fields[i]).ok
    THEN [ok |-> TRUE, v |-> [i \in 1..Len(fields) |-> float(fields[i]).v]]
    ELSE [ok |-> FALSE, v |-> <<>>]

\* "{}".format(n) for an integer n >= 0.
RECURSIVE format_int(_)
format_int(n) ==
    IF n < 10 THEN <<DigitChar(n)>>
    ELSE format_int(n \div 10) \o <<DigitChar(n % 10)>>

\* A slice that runs to the end of the sequence.
Slice_open(s, lo, hi) ==
    IF lo + 1 > Len(s) THEN <<>> ELSE SubSeq(s, lo + 1, Len(s))

\* s[lo:hi]
Slice(s, lo, hi) ==
    LET last == IF hi < Len(s) THEN hi ELSE Len(s)
    IN  IF lo + 1 > last THEN <<>> ELSE SubSeq(s, lo + 1, last)

\* s[::3]
RECURSIVE Stride3(_)
Stride3(s) ==
    IF s = <<>> THEN <<>> ELSE <<s[1]>> \o Stride3(Slice(s, 3, Len(s)))

\* ------------------------------------------------------- command vocabulary
\* The command codes of the module's docstring.
C001 == <<"#", "0", "0", "1">>
C002 == <<"#", "0", "0", "2">>
C004 == <<"#", "0", "0", "4">>
C005 == <<"#", "0", "0", "5">>
C006 == <<"#", "0", "0", "6">>
C015 == <<"#", "0", "1", "5">>
C026 == <<"#", "0", "2", "6">>
C027 == <<"#", "0", "2", "7">>
C028 == <<"#", "0", "2", "8">>
C029 == <<"#", "0", "2", "9">>
C032 == <<"#", "0", "3", "2">>
C034 == <<"#", "0", "3", "4">>
C039 == <<"#", "0", "3", "9">>
C040 == <<"#", "0", "4", "0">>
C059 == <<"#", "0", "5", "9">>
C082 == <<"#", "0", "8", "2">>
C089 == <<"#", "0", "8", "9">>
C091 == <<"#", "0", "9", "1">>
C102 == <<"#", "1", "0", "2">>
C103 == <<"#", "1", "0", "3">>

\* The output formats as the driver compares them.
F3 == <<"3">>
FSB == <<"S", "B">>
FCSV == <<"C", "S", "V">>
FRES == <<"R", "E", "S">>

\* "ON" if state else "OFF"
on_off(b) == IF b THEN <<"O", "N">> ELSE <<"O", "F", "F">>

\* An argument of a Command API call: an integer, a string or a boolean.
IntArg(n) == [s |-> <<>>, n |-> n, t |-> "int"]
StrArg(s) == [s |-> s, n |-> 0, t |-> "str"]
BoolArg(b) == [s |-> <<>>, n |-> IF b THEN 1 ELSE 0, t |-> "bool"]
NoArg == [s |-> <<>>, n |-> 0, t |-> "none"]

\* "{}".format(arg)
format(arg) ==
    CASE arg.t = "int" -> format_int(arg.n)
      [] arg.t = "str" -> arg.s
      [] arg.t = "bool" -> IF arg.n = 1 THEN <<"T", "r", "u", "e">>
                                         ELSE <<"F", "a", "l", "s", "e">>
      [] OTHER -> <<"N", "o", "n", "e">>

\* -------------------------------------------------------- packet classifier
\* Where "#" and three digits stand in the packet.
com_hits(packet) ==
    {i \in 1..(Len(packet) - 3) :
        /\ packet[i] = "#"
        /\ \A k \in 1..3 : packet[i + k] \in Digits}

\* re.match(".*(#\d{3})", packet): the pattern is found at some place.
com_regex(packet) == com_hits(packet) # {}

\* A group that stops one digit short.
com_group_short(packet) ==
    LET i == Max(com_hits(packet)) IN SubSeq(packet, i, i + 2)

\* com_regex.search(packet).group(1): ".*" is greedy, the group is the
\* last "#ddd" of the packet.
com_group(packet) ==
    LET i == Max(com_hits(packet)) IN SubSeq(packet, i, i + 3)

\* re.match("^>", packet)
int_regex(packet) == packet # <<>> /\ packet[1] = ">"

\* re.match("^\d", packet)
num_regex(packet) == packet # <<>> /\ packet[1] \in Digits

\* ---------------------------------------------------------- command registry
\* The codes of _LUT.
LUTCodes == {C002, C004, C006, C015, C027, C029, C032, C034, C040, C089}

\* _LUT[code]
LUT(code) ==
    CASE code = C002 -> [name |-> "address", op |-> "str"]
      [] code = C004 -> [name |-> "header", op |-> "parse_header"]
      [] code = C006 -> [name |-> "address_mode", op |-> "str"]
      [] code = C015 -> [name |-> "last_result", op |-> "str"]
      [] code = C027 -> [name |-> "delimiter", op |-> "parse_delimiter"]
      [] code = C029 -> [name |-> "run_mode", op |-> "str"]
      [] code = C032 -> [name |-> "software_version", op |-> "str"]
      [] code = C034 -> [name |-> "serial_number", op |-> "str"]
      [] code = C040 -> [name |-> "operating_mode", op |-> "str"]
      [] code = C089 -> [name |-> "output_format", op |-> "str"]

\* _datagram as __init__ builds it.
EmptyDatagram ==
    [header |-> [k \in {} |-> <<>>],
     address |-> <<>>,
     address_mode |-> <<>>,
     last_result |-> <<>>,
     delimiter |-> <<>>,
     run_mode |-> <<>>,
     software_version |-> <<>>,
     serial_number |-> <<>>,
     operating_mode |-> <<>>,
     output_format |-> <<>>]

\* _parse_header: the datagram after it, or a ValueError when the packet
\* does not split into exactly a name and a value.
parse_header(packet, dg) ==
    LET parts == split_at(packet, <<":">>)
    IN  IF Len(parts) # 2
        THEN [ok |-> FALSE, v |-> dg]
        ELSE LET name == strip(parts[1], Whitespace)
                 value == strip(parts[2], Whitespace)
                 h == dg.header
             IN  [ok |-> TRUE,
                  v |-> [dg EXCEPT !.header =
                            [k \in DOMAIN h \cup {name} |->
                                IF k = name THEN value ELSE h[k]]]]

\* A _parse_delimiter that keeps the quotes.
parse_delimiter_raw(packet, dg) ==
    [ok |-> TRUE, v |-> [dg EXCEPT !.delimiter = packet]]

\* _parse_delimiter
parse_delimiter(packet, dg) ==
    [ok |-> TRUE, v |-> [dg EXCEPT !.delimiter = strip(packet, {"\""})]]

\* A _parse_packet that files the packet of an unlisted code as the last
\* result.
parse_packet_unlisted(packet, com, dg) ==
    IF Len(com) > 0 /\ com \in LUTCodes
    THEN CASE LUT(com).op = "parse_header" -> parse_header(packet, dg)
           [] LUT(com).op = "parse_delimiter" -> parse_delimiter(packet, dg)
           [] OTHER -> [ok |-> TRUE, v |-> [dg EXCEPT ![LUT(com).name] = packet]]
    ELSE [ok |-> TRUE, v |-> [dg EXCEPT !.last_result = packet]]

\* _parse_packet below its "S" test: the datagram after the packet was
\* stored under the pending command's name.  A code that _LUT does not hold
\* is a KeyError, which is passed over.
parse_packet(packet, com, dg) ==
    IF Len(com) > 0 /\ com \in LUTCodes
    THEN CASE LUT(com).op = "parse_header" -> parse_header(packet, dg)
           [] LUT(com).op = "parse_delimiter" -> parse_delimiter(packet, dg)
           [] OTHER -> [ok |-> TRUE, v |-> [dg EXCEPT ![LUT(com).name] = packet]]
    ELSE [ok |-> TRUE, v |-> dg]

\* ------------------------------------------------------------- value decoder
\* _parse_values up to its last line: the new _values, or a ValueError.
\* With an output format that is none of the four, _values stays as it is.
parse_values(packet, dg, vals) ==
    LET fields == split(packet, dg.delimiter)
    IN  IF dg.output_format \in {F3, FSB}
        THEN IF fields.ok THEN floats(fields.v) ELSE fields
        ELSE IF dg.output_format = FCSV
        THEN IF fields.ok
             THEN LET all == floats(fields.v)
                  IN  [ok |-> all.ok, v |-> Stride3(all.v)]
             ELSE fields
        ELSE IF dg.output_format = FRES
        THEN IF fields.ok THEN floats(Slice(fields.v, 2, 4)) ELSE fields
        ELSE [ok |-> TRUE, v |-> vals]

\* _parse_values assigns _values: one of its three branches is taken and
\* every float() in it succeeds.
assigns(packet, dg) ==
    /\ dg.output_format \in {F3, FSB, FCSV, FRES}
    /\ parse_values(packet, dg, <<>>).ok

\* A framing that sends the packet as it is.
terminate_bare(pkt) == pkt

\* ---------------------------------------------------------------- framing
\* _send_pkt's first two lines: the bytes that go to the port.
terminate(pkt) ==
    IF Len(pkt) < 4 \/ Suffix(pkt, 4) # CRLF THEN pkt \o CRLF ELSE pkt

\* ------------------------------------------------------------------- state
VARIABLES
    running,        \* _running
    state,          \* _state: TRUE in read (continuous) mode
    delimiter,      \* _delimiter
    available,      \* _available
    values,         \* _values
    command,        \* _command
    output_format,  \* _output_format
    datagram,       \* _datagram
    lock,           \* _lock: "free", or the thread that holds it
    baudrate,       \* ser.baudrate
    closed,         \* ser.closed
    rx,             \* the port's input buffer: the lines waiting to be read
    written,        \* what the call in progress (or the last one) wrote to the port
    pcR,            \* where the listener thread stands in _receive_pkt
    packet,         \* _receive_pkt's local packet
    handler,        \* the branch of _receive_pkt taken for packet
    plan,           \* the steps the caller has left in the call in progress
    cur,            \* the call in progress, or the last one: what it observed
    calls,          \* Command API calls made so far
    emitted,        \* lines the instrument sent so far
    comtag,         \* the tag of the line that _command was taken from
    fresh,          \* line 183 ran since the caller last read _available
    instrument,     \* whether the instrument answers each request, and the
                    \* answers it has still to send
    returned        \* get_measurements has returned what _values holds now

vars == <<running, state, delimiter, available, values, command,
          output_format, datagram, lock, baudrate, closed, rx, written,
          pcR, packet, handler, plan, cur, calls, emitted, comtag,
          fresh, instrument, returned>>

\* A line in the input buffer: its bytes and, when the instrument sent it
\* in answer to a request it had been written, the number of the call that
\* wrote the request (0 for a line sent unasked).
Line(bytes, tag) == [bytes |-> bytes, tag |-> tag]

NoLine == Line(<<>>, 0)

\* An instrument that sends what it likes, when it likes.
Unasked == [answers |-> FALSE, reports |-> FALSE, owed |-> <<>>]

\* An instrument that answers each request, with nothing left to send.
Answering == [answers |-> TRUE, reports |-> FALSE, owed |-> <<>>]

\* An instrument that answers each request and, to a getter's request,
\* sends what it was asked for after the answer.
Reporting == [answers |-> TRUE, reports |-> TRUE, owed |-> <<>>]

\* What an answering instrument sends for a request: the prompt for the
\* interrupt request, the code for a request that carries one.
Answer(pkt) ==
    LET request == rstrip(pkt, Whitespace)
    IN  IF request = <<"#">> THEN <<<<">">>>>
        ELSE IF Len(request) >= 4 /\ request[1] = "#"
        THEN <<SubSeq(request, 1, 4)>>
        ELSE <<>>

\* What the instrument reports for a code that _LUT holds: a header entry,
\* the delimiter in quotes, the output format, a setting.
Reported(code) ==
    IF code = C004 THEN <<"a", ":", "b">>
    ELSE IF code = C027 THEN <<"\"", ",", "\"">>
    ELSE IF code = C089 THEN FCSV
    ELSE <<"O", "N">>

\* What a reporting instrument sends after its answer: the report, for a
\* request whose code _LUT holds.
Report(pkt) ==
    LET request == rstrip(pkt, Whitespace)
    IN  IF Len(request) >= 4 /\ SubSeq(request, 1, 4) \in LUTCodes
        THEN <<Reported(SubSeq(request, 1, 4))>>
        ELSE <<>>

\* The lines the instrument sends for a request.
Sends(pkt, inst) ==
    Answer(pkt) \o (IF inst.reports THEN Report(pkt) ELSE <<>>)

\* A call as it begins: its name and argument, what it returns (None
\* unless a later step says otherwise), the _state read by its first
\* "if self._state", the tag of the line whose code ended its last wait
\* for an acknowledgement, and whether it is a get_measurements that
\* follows another with no reading published since that one read
\* _available.
Call(op, arg) ==
    [arg |-> arg, op |-> op, result |-> "None", ret |-> <<>>,
     was_state |-> "unread", acktag |-> 0, stale |-> FALSE]

\* __init__ (serial.Serial opens the port), before any call.
Init ==
    /\ running = FALSE
    /\ state = FALSE
    /\ delimiter = <<>>
    /\ available = FALSE
    /\ values = <<>>
    /\ command = <<>>
    /\ output_format = <<>>
    /\ datagram = EmptyDatagram
    /\ lock = "free"
    /\ baudrate = 19200
    /\ closed = FALSE
    /\ rx = <<>>
    /\ written = <<>>
    /\ pcR = "unstarted"
    /\ packet = NoLine
    /\ handler = "none"
    /\ plan = <<>>
    /\ cur = Call("__init__", NoArg)
    /\ calls = 0
    /\ emitted = 0
    /\ comtag = 0
    /\ fresh = FALSE
    /\ instrument = Unasked
    /\ returned = FALSE

\* -------------------------------------------------------------- instrument
\* A reading of four comma-separated fields, one of three tab-separated
\* fields, and readings with a field that is no number.
Reading4 == <<"1", ",", "2", ",", "3", ",", "4">>
Reading3 == <<"1", ".", "0", "\t", "2", ".", "5", "\t", "3">>
Reading7 ==
    <<"1", ",", "2", ",", "3", ",", "4", ",", "5", ",", "6", ",", "7">>
BadAt1 == <<"1", ",", "x", ",", "3", ",", "4">>
BadAt3 == <<"1", ",", "2", ",", "3", ",", "x">>

\* What the instrument sends of its own: the interrupt prompt, readings,
\* and the answer to "#004".
OwnLines == {<<">">>, Reading4, <<"a", ":", "b">>}

\* The acknowledgements it sends: the code of a request of the call in
\* progress (or of the last call), echoed.
Echoes ==
    {com_group(written[i]) : i \in {j \in 1..Len(written) : com_regex(written[j])}}

\* The instrument sends a line; it waits in the port's input buffer.  The
\* driver sees the lines only in their order, so the next line is sent
\* once the line before it was read.
device_send ==
    /\ ~closed
    /\ emitted < MaxLines
    /\ rx = <<>>
    /\ \E l \in OwnLines \cup Echoes :
           rx' = <<Line(l \o CRLF, IF l \in Echoes THEN calls ELSE 0)>>
    /\ emitted' = emitted + 1
    /\ UNCHANGED <<running, state, delimiter, available, values, command,
                   output_format, datagram, lock, baudrate, closed, written,
                   pcR, packet, handler, plan, cur, calls, comtag, fresh,
                   instrument, returned>>

\* ----------------------------------------------------------- receiver loop
\* while self._running:
recv_while ==
    /\ pcR = "while"
    /\ pcR' = IF running THEN "in_waiting" ELSE "close"
    /\ UNCHANGED <<running, state, delimiter, available, values, command,
                   output_format, datagram, lock, baudrate, closed, rx,
                   written, packet, handler, plan, cur, calls, emitted,
                   comtag, fresh, instrument, returned>>

\* if self.ser.in_waiting: ... else time.sleep(0.01)
recv_in_waiting ==
    /\ pcR = "in_waiting"
    /\ pcR' = IF rx # <<>> THEN "acquire" ELSE "while"
    /\ UNCHANGED <<running, state, delimiter, available, values, command,
                   output_format, datagram, lock, baudrate, closed, rx,
                   written, packet, handler, plan, cur, calls, emitted,
                   comtag, fresh, instrument, returned>>

\* A listener that goes on to read without waiting for the lock.
recv_acquire_nowait ==
    /\ pcR = "acquire"
    /\ lock' = "listener"
    /\ pcR' = "readline"
    /\ UNCHANGED <<running, state, delimiter, available, values, command,
                   output_format, datagram, baudrate, closed, rx, written,
                   packet, handler, plan, cur, calls, emitted, comtag,
                   fresh, instrument, returned>>

\* self._lock.acquire()
recv_acquire ==
    /\ pcR = "acquire"
    /\ lock = "free"
    /\ lock' = "listener"
    /\ pcR' = "readline"
    /\ UNCHANGED <<running, state, delimiter, available, values, command,
                   output_format, datagram, baudrate, closed, rx, written,
                   packet, handler, plan, cur, calls, emitted, comtag,
                   fresh, instrument, returned>>

\* buff = self.ser.readline(); self._lock.release();
\* packet = buff.decode().rstrip()
recv_readline ==
    /\ pcR = "readline"
    /\ rx # <<>>
    /\ packet' = [Head(rx) EXCEPT !.bytes = rstrip(Head(rx).bytes, Whitespace)]
    /\ rx' = Tail(rx)
    /\ lock' = "free"
    /\ handler' = "none"
    /\ pcR' = "classify"
    /\ UNCHANGED <<running, state, delimiter, available, values, command,
                   output_format, datagram, baudrate, closed, written, plan,
                   cur, calls, emitted, comtag, fresh, instrument, returned>>

\* The if / elif / else of lines 134-144, up to its first access of the
\* driver's attributes.
recv_classify ==
    /\ pcR = "classify"
    /\ IF com_regex(packet.bytes)
       THEN /\ command' = com_group(packet.bytes)
            /\ comtag' = packet.tag
            /\ handler' = "acknowledgement"
            /\ pcR' = "while"
            /\ UNCHANGED state
       ELSE IF int_regex(packet.bytes)
       THEN /\ state' = FALSE
            /\ handler' = "interrupt"
            /\ pcR' = "clear_command"
            /\ UNCHANGED <<command, comtag>>
       ELSE /\ IF state /\ num_regex(packet.bytes)
               THEN handler' = "measurement" /\ pcR' = "parse_values"
               ELSE handler' = "none" /\ pcR' = "elif_not_state"
            /\ UNCHANGED <<state, command, comtag>>
    /\ UNCHANGED <<running, delimiter, available, values, output_format,
                   datagram, lock, baudrate, closed, rx, written, packet,
                   plan, cur, calls, emitted, fresh, instrument, returned>>

\* A listener that leaves the pending command on an interrupt prompt.
recv_keep_command ==
    /\ pcR = "clear_command"
    /\ pcR' = "while"
    /\ UNCHANGED <<running, state, delimiter, available, values, command,
                   output_format, datagram, lock, baudrate, closed, rx,
                   written, packet, handler, plan, cur, calls, emitted,
                   comtag, fresh, instrument, returned>>

\* self._command = "" (line 140)
recv_clear_command ==
    /\ pcR = "clear_command"
    /\ command' = <<>>
    /\ comtag' = packet.tag
    /\ pcR' = "while"
    /\ UNCHANGED <<running, state, delimiter, available, values,
                   output_format, datagram, lock, baudrate, closed, rx,
                   written, packet, handler, plan, cur, calls, emitted,
                   fresh, instrument, returned>>

\* elif not self._state: self._parse_packet(packet)
recv_parse_packet ==
    /\ pcR = "elif_not_state"
    /\ IF state
       THEN /\ pcR' = "while"
            /\ UNCHANGED <<datagram, handler>>
       ELSE IF command = <<"S">>
       THEN /\ handler' = "single"
            /\ pcR' = "parse_values"
            /\ UNCHANGED datagram
       ELSE LET r == parse_packet(packet.bytes, command, datagram)
            IN  /\ handler' = IF ~r.ok THEN "ValueError"
                              ELSE IF command \in LUTCodes THEN "registry"
                              ELSE "none"
                /\ datagram' = r.v
                /\ pcR' = "while"
    /\ UNCHANGED <<running, state, delimiter, available, values, command,
                   output_format, lock, baudrate, closed, rx, written,
                   packet, plan, cur, calls, emitted, comtag, fresh,
                   instrument, returned>>

\* _parse_values, lines 177-182: a ValueError leaves the loop's try.
recv_parse_values ==
    /\ pcR = "parse_values"
    /\ LET r == parse_values(packet.bytes, datagram, values)
       IN  IF r.ok
           THEN values' = r.v /\ pcR' = "publish" /\ handler' = handler
           ELSE values' = values /\ pcR' = "while" /\ handler' = "ValueError"
    /\ returned' = IF assigns(packet.bytes, datagram) THEN FALSE ELSE returned
    /\ UNCHANGED <<running, state, delimiter, available, command,
                   output_format, datagram, lock, baudrate, closed, rx,
                   written, packet, plan, cur, calls, emitted, comtag,
                   fresh, instrument>>

\* self._available = True (line 183)
recv_publish ==
    /\ pcR = "publish"
    /\ available' = TRUE
    /\ fresh' = TRUE
    /\ pcR' = "while"
    /\ UNCHANGED <<running, state, delimiter, values, command,
                   output_format, datagram, lock, baudrate, closed, rx,
                   written, packet, handler, plan, cur, calls, emitted,
                   comtag, instrument, returned>>

\* self.ser.close() (line 155); the thread ends.
recv_close ==
    /\ pcR = "close"
    /\ closed' = TRUE
    /\ rx' = <<>>
    /\ pcR' = "done"
    /\ UNCHANGED <<running, state, delimiter, available, values, command,
                   output_format, datagram, lock, baudrate, written, packet,
                   handler, plan, cur, calls, emitted, comtag, fresh,
                   instrument, returned>>

\* -------------------------------------------------------------- command API
\* A step the caller has left: its kind and its operand.
Step(k) == [k |-> k, a |-> NoArg]

StepOn(k, a) == [k |-> k, a |-> a]

\* _send_pkt(pkt): the packet is terminated, then written under the lock.
send_pkt(pkt) == <<Step("acquire"), StepOn("write", StrArg(terminate(pkt)))>>

\* An interrupt() that sends its request in either mode.
interrupt_always(st, rest) ==
    send_pkt(<<"#">>) \o <<Step("while_state")>> \o rest

\* interrupt() once "if self._state" has read st, and what follows it.
interrupt_then(st, rest) ==
    (IF st THEN send_pkt(<<"#">>) \o <<Step("while_state")>> ELSE <<>>) \o rest

\* A getter below its interrupt(): the request, then _check_ack.
get(code) == send_pkt(code) \o <<StepOn("check_ack", StrArg(code))>>

\* A getter called inside config().
getter(code) == <<Step("if_state")>> \o get(code)

\* The legal arguments, as the assert statements list them.
Rates == {1, 2, 4, 8}
BaudRates == {2400, 4800, 9600, 19200, 38400}
OutputFormats == {IntArg(3), StrArg(FCSV), StrArg(FSB), StrArg(FRES)}

\* The arguments the caller tries.
RateArgs == Rates \cup {3}
BaudArgs == {19200, 38400, 1200}
OutputFormatArgs == OutputFormats \cup {StrArg(<<"3">>)}
AddressArgs == {2}
DelimiterArgs == {<<",">>}
SwitchArgs == {TRUE}
ModeArgs == {8, 3}

\* The caller is between two calls and may make one more.
CanCall == plan = <<>> /\ calls < MaxCalls

\* A call begins.
Begin(op, arg, st) ==
    /\ cur' = [Call(op, arg) EXCEPT !.was_state = st]
    /\ calls' = calls + 1
    /\ written' = <<>>

\* A call that opens with interrupt(): its "if self._state" is the call's
\* first step.
Enter(op, arg, rest) ==
    /\ CanCall
    /\ running
    /\ Begin(op, arg, IF state THEN "read" ELSE "interrupt")
    /\ plan' = interrupt_then(state, rest)
    /\ UNCHANGED <<running, state, delimiter, available, values, command,
                   output_format, datagram, lock, baudrate, closed, rx, pcR,
                   packet, handler, emitted, comtag, fresh, instrument,
                   returned>>

\* A call that fails only after its interrupt().
Reject_late(op, arg) == Enter(op, arg, <<>>)

\* A call whose assert fails.
Reject(op, arg) ==
    /\ CanCall
    /\ running
    /\ cur' = [Call(op, arg) EXCEPT !.result = "AssertionError"]
    /\ calls' = calls + 1
    /\ written' = <<>>
    /\ plan' = <<>>
    /\ UNCHANGED <<running, state, delimiter, available, values, command,
                   output_format, datagram, lock, baudrate, closed, rx, pcR,
                   packet, handler, emitted, comtag, fresh, instrument,
                   returned>>

\* start(): the flag, the port, the thread.
start ==
    /\ plan = <<>>
    /\ pcR = "unstarted"
    /\ ~running
    /\ running' = TRUE
    /\ closed' = FALSE
    /\ pcR' = "while"
    /\ cur' = Call("start", NoArg)
    /\ UNCHANGED <<state, delimiter, available, values, command,
                   output_format, datagram, lock, baudrate, rx, written,
                   packet, handler, plan, calls, emitted, comtag, fresh,
                   instrument, returned>>

\* stop()
stop ==
    /\ CanCall
    /\ Begin("stop", NoArg, "unread")
    /\ IF running
       THEN running' = FALSE /\ plan' = <<Step("join")>>
       ELSE running' = running /\ plan' = <<>>
    /\ UNCHANGED <<state, delimiter, available, values, command,
                   output_format, datagram, lock, baudrate, closed, rx, pcR,
                   packet, handler, emitted, comtag, fresh, instrument,
                   returned>>

\* config(): nine getters in a row.
config ==
    Enter("config", NoArg,
          get(C004) \o getter(C002) \o getter(C006) \o getter(C015)
          \o getter(C027) \o getter(C029) \o getter(C032) \o getter(C040)
          \o getter(C089))

interrupt == Enter("interrupt", NoArg, <<>>)

\* continuous(rate): the flag, then the request.
continuous ==
    \E rate \in RateArgs :
        /\ CanCall
        /\ running
        /\ Begin("continuous", IntArg(rate), "unread")
        /\ state' = TRUE
        /\ plan' = send_pkt(<<"M">> \o format(IntArg(rate)))
        /\ UNCHANGED <<running, delimiter, available, values, command,
                       output_format, datagram, lock, baudrate, closed, rx,
                       pcR, packet, handler, emitted, comtag, fresh,
                       instrument, returned>>

single ==
    /\ CanCall
    /\ running
    /\ Begin("single", NoArg, "unread")
    /\ plan' = send_pkt(<<"S">>)
    /\ UNCHANGED <<running, state, delimiter, available, values, command,
                   output_format, datagram, lock, baudrate, closed, rx, pcR,
                   packet, handler, emitted, comtag, fresh, instrument,
                   returned>>

set_485_address ==
    \E address \in AddressArgs :
        Enter("set_485_address", IntArg(address),
              send_pkt(C001 \o <<";">> \o format(IntArg(address))))

get_485_address == Enter("get_485_address", NoArg, get(C002))

get_header == Enter("get_header", NoArg, get(C004))

set_address_mode ==
    \E b \in SwitchArgs :
        Enter("set_address_mode", BoolArg(b),
              send_pkt(C005 \o <<";">> \o on_off(b)))

get_address_mode == Enter("get_address_mode", NoArg, get(C006))

get_last_result == Enter("get_last_result", NoArg, get(C015))

\* set_delimiter(delim): _delimiter is the caller's own.
set_delimiter ==
    \E delim \in DelimiterArgs :
        /\ delimiter' = delim
        /\ CanCall
        /\ running
        /\ Begin("set_delimiter", StrArg(delim),
                 IF state THEN "read" ELSE "interrupt")
        /\ plan' = interrupt_then(state, send_pkt(C026 \o <<";">> \o delim))
        /\ UNCHANGED <<running, state, available, values, command,
                       output_format, datagram, lock, baudrate, closed, rx,
                       pcR, packet, handler, emitted, comtag, fresh,
                       instrument, returned>>

get_delimiter == Enter("get_delimiter", NoArg, get(C027))

set_run_mode ==
    Enter("set_run_mode", NoArg, send_pkt(C028) \o <<Step("set_state")>>)

get_run_mode == Enter("get_run_mode", NoArg, get(C029))

get_version == Enter("get_version", NoArg, get(C032))

get_serial == Enter("get_serial", NoArg, get(C034))

set_mode ==
    \E value \in ModeArgs :
        IF value \in Rates
        THEN Enter("set_mode", IntArg(value),
                   send_pkt(C039 \o <<";", "M">> \o format(IntArg(value))))
        ELSE Reject("set_mode", IntArg(value))

get_mode == Enter("get_mode", NoArg, get(C040))

\* set_baud(baud): nothing to do at the port's own rate, else the request
\* and the reconnection.
set_baud ==
    \E baud \in BaudArgs :
        IF baud \notin BaudRates
        THEN Reject("set_baud", IntArg(baud))
        ELSE IF baud = baudrate
        THEN /\ CanCall
             /\ running
             /\ Begin("set_baud", IntArg(baud), "unread")
             /\ plan' = <<>>
             /\ UNCHANGED <<running, state, delimiter, available, values,
                            command, output_format, datagram, lock,
                            baudrate, closed, rx, pcR, packet, handler,
                            emitted, comtag, fresh, instrument, returned>>
        ELSE Enter("set_baud", IntArg(baud),
                   send_pkt(C059 \o <<";">> \o format(IntArg(baud)))
                   \o <<Step("stop"), Step("join"),
                        StepOn("__init__", IntArg(baud)), Step("start")>>)

set_output_format ==
    \E fmt \in OutputFormatArgs :
        IF fmt \in OutputFormats
        THEN Enter("set_output_format", fmt,
                   send_pkt(C082 \o <<";">> \o format(fmt))
                   \o <<StepOn("set_format", fmt)>>)
        ELSE Reject("set_output_format", fmt)

get_output_format == Enter("get_output_format", NoArg, get(C089))

set_startup_mode ==
    \E b \in SwitchArgs :
        Enter("set_startup_mode", BoolArg(b),
              send_pkt(C091 \o <<";">> \o on_off(b)))

set_485_mode ==
    \E b \in SwitchArgs :
        Enter("set_485_mode", BoolArg(b),
              send_pkt(C102 \o <<";">> \o on_off(b)))

send_485_mode == Enter("send_485_mode", NoArg, send_pkt(C103))

\* get_measurements(): "if self._available" is the call's first step.
get_measurements ==
    /\ CanCall
    /\ running
    /\ cur' = [Call("get_measurements", NoArg) EXCEPT
                  !.result = IF available THEN "values" ELSE "False",
                  !.stale = cur.op = "get_measurements" /\ ~fresh]
    /\ calls' = calls + 1
    /\ written' = <<>>
    /\ fresh' = FALSE
    /\ plan' = IF available
               THEN <<Step("clear_available"), Step("return_values")>>
               ELSE <<>>
    /\ UNCHANGED <<running, state, delimiter, available, values, command,
                   output_format, datagram, lock, baudrate, closed, rx, pcR,
                   packet, handler, emitted, comtag, instrument, returned>>

\* ---------------------------------------------------- the steps of a call
Next_is(k) == plan # <<>> /\ Head(plan).k = k

\* interrupt(): if self._state:
call_if_state ==
    /\ Next_is("if_state")
    /\ plan' = interrupt_then(state, Tail(plan))
    /\ UNCHANGED <<running, state, delimiter, available, values, command,
                   output_format, datagram, lock, baudrate, closed, rx,
                   written, pcR, packet, handler, cur, calls, emitted,
                   comtag, fresh, instrument, returned>>

\* An interrupt() that does not wait for the mode to change.
call_while_state_nowait ==
    /\ Next_is("while_state")
    /\ plan' = Tail(plan)
    /\ UNCHANGED <<running, state, delimiter, available, values, command,
                   output_format, datagram, lock, baudrate, closed, rx,
                   written, pcR, packet, handler, cur, calls, emitted,
                   comtag, fresh, instrument, returned>>

\* interrupt(): while self._state: time.sleep(0.01)
call_while_state ==
    /\ Next_is("while_state")
    /\ ~state
    /\ plan' = Tail(plan)
    /\ UNCHANGED <<running, state, delimiter, available, values, command,
                   output_format, datagram, lock, baudrate, closed, rx,
                   written, pcR, packet, handler, cur, calls, emitted,
                   comtag, fresh, instrument, returned>>

\* _send_pkt: self._lock.acquire()
call_acquire ==
    /\ Next_is("acquire")
    /\ lock = "free"
    /\ lock' = "caller"
    /\ plan' = Tail(plan)
    /\ UNCHANGED <<running, state, delimiter, available, values, command,
                   output_format, datagram, baudrate, closed, rx, written,
                   pcR, packet, handler, cur, calls, emitted, comtag, fresh,
                   instrument, returned>>

\* _send_pkt: self.ser.write(pkt.encode()); self._lock.release()
call_write ==
    /\ Next_is("write")
    /\ written' = Append(written, Head(plan).a.s)
    /\ instrument' =
           IF instrument.answers
           THEN [instrument EXCEPT !.owed =
                    @ \o [i \in 1..Len(Sends(Head(plan).a.s, instrument)) |->
                             Line(Sends(Head(plan).a.s, instrument)[i] \o CRLF,
                                  calls)]]
           ELSE instrument
    /\ lock' = "free"
    /\ plan' = Tail(plan)
    /\ UNCHANGED <<running, state, delimiter, available, values, command,
                   output_format, datagram, baudrate, closed, rx, pcR,
                   packet, handler, cur, calls, emitted, comtag, fresh,
                   returned>>

\* _check_ack(val): while not val == self._command: time.sleep(0.01)
call_check_ack ==
    /\ Next_is("check_ack")
    /\ command = Head(plan).a.s
    /\ cur' = [cur EXCEPT !.acktag = comtag]
    /\ plan' = Tail(plan)
    /\ UNCHANGED <<running, state, delimiter, available, values, command,
                   output_format, datagram, lock, baudrate, closed, rx,
                   written, pcR, packet, handler, calls, emitted, comtag,
                   fresh, instrument, returned>>

\* set_run_mode: self._state = True
call_set_state ==
    /\ Next_is("set_state")
    /\ state' = TRUE
    /\ plan' = Tail(plan)
    /\ UNCHANGED <<running, delimiter, available, values, command,
                   output_format, datagram, lock, baudrate, closed, rx,
                   written, pcR, packet, handler, cur, calls, emitted,
                   comtag, fresh, instrument, returned>>

\* set_output_format, lines 303-307
call_set_format ==
    /\ Next_is("set_format")
    /\ output_format' = format(Head(plan).a)
    /\ delimiter' = IF Head(plan).a = IntArg(3) THEN <<"\t">>
                    ELSE IF Head(plan).a \in {StrArg(FCSV), StrArg(FSB), StrArg(FRES)}
                    THEN <<",">>
                    ELSE delimiter
    /\ plan' = Tail(plan)
    /\ UNCHANGED <<running, state, available, values, command, datagram,
                   lock, baudrate, closed, rx, written, pcR, packet,
                   handler, cur, calls, emitted, comtag, fresh, instrument,
                   returned>>

\* A get_measurements that leaves the flag.
call_keep_available ==
    /\ Next_is("clear_available")
    /\ plan' = Tail(plan)
    /\ UNCHANGED <<running, state, delimiter, available, values, command,
                   output_format, datagram, lock, baudrate, closed, rx,
                   written, pcR, packet, handler, cur, calls, emitted,
                   comtag, fresh, instrument, returned>>

\* get_measurements: self._available = False
call_clear_available ==
    /\ Next_is("clear_available")
    /\ available' = FALSE
    /\ plan' = Tail(plan)
    /\ UNCHANGED <<running, state, delimiter, values, command,
                   output_format, datagram, lock, baudrate, closed, rx,
                   written, pcR, packet, handler, cur, calls, emitted,
                   comtag, fresh, instrument, returned>>

\* get_measurements: return self._values
call_return_values ==
    /\ Next_is("return_values")
    /\ cur' = [cur EXCEPT !.ret = values]
    /\ returned' = TRUE
    /\ plan' = Tail(plan)
    /\ UNCHANGED <<running, state, delimiter, available, values, command,
                   output_format, datagram, lock, baudrate, closed, rx,
                   written, pcR, packet, handler, calls, emitted, comtag,
                   fresh, instrument>>

\* stop() inside set_baud: self._running = False
call_stop ==
    /\ Next_is("stop")
    /\ running' = FALSE
    /\ plan' = Tail(plan)
    /\ UNCHANGED <<state, delimiter, available, values, command,
                   output_format, datagram, lock, baudrate, closed, rx,
                   written, pcR, packet, handler, cur, calls, emitted,
                   comtag, fresh, instrument, returned>>

\* A join that does not wait for the thread.
call_join_nowait ==
    /\ Next_is("join")
    /\ plan' = Tail(plan)
    /\ UNCHANGED <<running, state, delimiter, available, values, command,
                   output_format, datagram, lock, baudrate, closed, rx,
                   written, pcR, packet, handler, cur, calls, emitted,
                   comtag, fresh, instrument, returned>>

\* stop(): self._listener.join()
call_join ==
    /\ Next_is("join")
    /\ pcR = "done"
    /\ plan' = Tail(plan)
    /\ UNCHANGED <<running, state, delimiter, available, values, command,
                   output_format, datagram, lock, baudrate, closed, rx,
                   written, pcR, packet, handler, cur, calls, emitted,
                   comtag, fresh, instrument, returned>>

\* set_baud: self.__init__(self.ser.port, baud, timeout=0.5): a new port,
\* a new thread, a new lock, and every attribute as at construction.
call_init ==
    /\ Next_is("__init__")
    /\ running' = FALSE
    /\ state' = FALSE
    /\ delimiter' = <<>>
    /\ available' = FALSE
    /\ values' = <<>>
    /\ command' = <<>>
    /\ output_format' = <<>>
    /\ datagram' = EmptyDatagram
    /\ lock' = "free"
    /\ baudrate' = Head(plan).a.n
    /\ closed' = FALSE
    /\ rx' = <<>>
    /\ pcR' = "unstarted"
    /\ packet' = NoLine
    /\ handler' = "none"
    /\ comtag' = 0
    /\ fresh' = FALSE
    /\ returned' = FALSE
    /\ plan' = Tail(plan)
    /\ UNCHANGED <<written, cur, calls, emitted, instrument>>

\* set_baud: self.start()
call_start ==
    /\ Next_is("start")
    /\ running' = TRUE
    /\ closed' = FALSE
    /\ pcR' = "while"
    /\ plan' = Tail(plan)
    /\ UNCHANGED <<state, delimiter, available, values, command,
                   output_format, datagram, lock, baudrate, rx, written,
                   packet, handler, cur, calls, emitted, comtag, fresh,
                   instrument, returned>>

\* ------------------------------------------------------------ specification
Next ==
    \/ device_send
    \/ recv_while
    \/ recv_in_waiting
    \/ recv_acquire
    \/ recv_readline
    \/ recv_classify
    \/ recv_clear_command
    \/ recv_parse_packet
    \/ recv_parse_values
    \/ recv_publish
    \/ recv_close
    \/ start
    \/ stop
    \/ config
    \/ interrupt
    \/ continuous
    \/ single
    \/ set_485_address
    \/ get_485_address
    \/ get_header
    \/ set_address_mode
    \/ get_address_mode
    \/ get_last_result
    \/ set_delimiter
    \/ get_delimiter
    \/ set_run_mode
    \/ get_run_mode
    \/ get_version
    \/ get_serial
    \/ set_mode
    \/ get_mode
    \/ set_baud
    \/ set_output_format
    \/ get_output_format
    \/ set_startup_mode
    \/ set_485_mode
    \/ send_485_mode
    \/ get_measurements
    \/ call_if_state
    \/ call_while_state
    \/ call_acquire
    \/ call_write
    \/ call_check_ack
    \/ call_set_state
    \/ call_set_format
    \/ call_clear_available
    \/ call_return_values
    \/ call_stop
    \/ call_join
    \/ call_init
    \/ call_start

\* The driver from its construction.
Spec == Init /\ [][Next]_vars


\* ------------------------------------------------ the driver in read mode
\* The lines the instrument may send in read mode.
MaxReadings == 2

\* The payload that answers get_delimiter for the delimiter d.
Quoted(d) == <<"\"">> \o d \o <<"\"">>

\* The driver after get_delimiter(), get_output_format() and continuous(1)
\* have returned: the listener stored the two payloads under "#027" and
\* "#089", the mode is read mode, the last request is the one of continuous.
InitStream ==
    /\ running = TRUE
    /\ state = TRUE
    /\ delimiter = <<>>
    /\ available = FALSE
    /\ values = <<>>
    /\ command = C089
    /\ output_format = <<>>
    /\ \E fmt \in {F3, FSB, FCSV, FRES}, d \in {<<",">>, <<"\t">>} :
           datagram =
               parse_packet(fmt, C089,
                            parse_packet(Quoted(d), C027, EmptyDatagram).v).v
    /\ lock = "free"
    /\ baudrate = 19200
    /\ closed = FALSE
    /\ rx = <<>>
    /\ written = <<terminate(<<"M">> \o format(IntArg(1)))>>
    /\ pcR = "while"
    /\ packet = NoLine
    /\ handler = "none"
    /\ plan = <<>>
    /\ cur = Call("continuous", IntArg(1))
    /\ calls = 0
    /\ emitted = 0
    /\ comtag = 0
    /\ fresh = FALSE
    /\ instrument = Unasked
    /\ returned = FALSE

\* What the instrument sends in read mode: readings, well formed or not for
\* one delimiter or the other, and the interrupt prompt.
StreamLines == {<<">">>, Reading4, Reading7, Reading3, BadAt1, BadAt3}

stream_send ==
    /\ emitted < MaxReadings
    /\ rx = <<>>
    /\ \E l \in StreamLines : rx' = <<Line(l \o CRLF, 0)>>
    /\ emitted' = emitted + 1
    /\ UNCHANGED <<running, state, delimiter, available, values, command,
                   output_format, datagram, lock, baudrate, closed, written,
                   pcR, packet, handler, plan, cur, calls, comtag, fresh,
                   instrument, returned>>

NextStream ==
    \/ stream_send
    \/ recv_while
    \/ recv_in_waiting
    \/ recv_acquire
    \/ recv_readline
    \/ recv_classify
    \/ recv_clear_command
    \/ recv_parse_packet
    \/ recv_parse_values
    \/ recv_publish
    \/ interrupt
    \/ get_measurements
    \/ call_acquire
    \/ call_write
    \/ call_while_state
    \/ call_clear_available
    \/ call_return_values

\* The driver in read mode, its configuration fetched.
SpecStream == InitStream /\ [][NextStream]_vars

\* ------------------------------------------- the listener and its replies
\* The lines the instrument may send to the listener below.
MaxReplies == 2

\* The codes an acknowledgement may have left pending: three that _LUT
\* holds, three that it does not.
PendingCodes == {C027, C089, C004, C001, C082, C103}

\* The datagram once the delimiter "," and the format CSV were fetched.
Configured ==
    parse_packet(FCSV, C089,
                 parse_packet(Quoted(<<",">>), C027, EmptyDatagram).v).v

\* The started driver between two calls, in either mode, with no command
\* pending (as after an interrupt prompt) or with the code of the last
\* acknowledgement pending, its configuration fetched or not.
InitReply ==
    /\ running = TRUE
    /\ state \in BOOLEAN
    /\ delimiter = <<>>
    /\ available = FALSE
    /\ values = <<>>
    /\ command \in PendingCodes \cup {<<>>}
    /\ output_format = <<>>
    /\ datagram \in {EmptyDatagram, Configured}
    /\ lock = "free"
    /\ baudrate = 19200
    /\ closed = FALSE
    /\ rx = <<>>
    /\ written = <<>>
    /\ pcR = "while"
    /\ packet = NoLine
    /\ handler = "none"
    /\ plan = <<>>
    /\ cur = Call("start", NoArg)
    /\ calls = 0
    /\ emitted = 0
    /\ comtag = 0
    /\ fresh = FALSE
    /\ instrument = Unasked
    /\ returned = FALSE

\* What the instrument sends: payloads (a quoted tab, a format, a header
\* entry, a reading), the interrupt prompt, and acknowledgements that
\* begin with the prompt or with a digit.
ReplyLines ==
    {Quoted(<<"\t">>), FCSV, <<"a", ":", "b">>, Reading4, <<">">>,
     <<">">> \o C027, <<"1">> \o C001}

reply_send ==
    /\ emitted < MaxReplies
    /\ rx = <<>>
    /\ \E l \in ReplyLines : rx' = <<Line(l \o CRLF, 0)>>
    /\ emitted' = emitted + 1
    /\ UNCHANGED <<running, state, delimiter, available, values, command,
                   output_format, datagram, lock, baudrate, closed, written,
                   pcR, packet, handler, plan, cur, calls, comtag, fresh,
                   instrument, returned>>

NextReply ==
    \/ reply_send
    \/ recv_while
    \/ recv_in_waiting
    \/ recv_acquire
    \/ recv_readline
    \/ recv_classify
    \/ recv_clear_command
    \/ recv_parse_packet
    \/ recv_parse_values
    \/ recv_publish

\* The listener at work on what the instrument sends.
SpecReply == InitReply /\ [][NextReply]_vars

\* ------------------------------------------------------ a port that fails
\* self.ser.in_waiting raises serial.SerialException: the except clause of
\* line 151 passes and the loop goes round.
recv_in_waiting_fault ==
    /\ pcR = "in_waiting"
    /\ handler' = "SerialException"
    /\ pcR' = "while"
    /\ UNCHANGED <<running, state, delimiter, available, values, command,
                   output_format, datagram, lock, baudrate, closed, rx,
                   written, packet, plan, cur, calls, emitted, comtag,
                   fresh, instrument, returned>>

\* self.ser.readline() raises serial.SerialException: line 126 is skipped,
\* the except clause of line 151 passes and the loop goes round.
recv_readline_fault ==
    /\ pcR = "readline"
    /\ handler' = "SerialException"
    /\ pcR' = "while"
    /\ UNCHANGED <<running, state, delimiter, available, values, command,
                   output_format, datagram, lock, baudrate, closed, rx,
                   written, packet, plan, cur, calls, emitted, comtag,
                   fresh, instrument, returned>>

NextFault ==
    \/ NextStream
    \/ recv_in_waiting_fault
    \/ recv_readline_fault

\* The driver in read mode on a port whose reads may fail.
SpecFault == InitStream /\ [][NextFault]_vars

\* ------------------------------------------ an instrument that answers
\* The driver after start(), on an instrument that answers each request.
InitLive ==
    /\ running = TRUE
    /\ state = FALSE
    /\ delimiter = <<>>
    /\ available = FALSE
    /\ values = <<>>
    /\ command = <<>>
    /\ output_format = <<>>
    /\ datagram = EmptyDatagram
    /\ lock = "free"
    /\ baudrate = 19200
    /\ closed = FALSE
    /\ rx = <<>>
    /\ written = <<>>
    /\ pcR = "while"
    /\ packet = NoLine
    /\ handler = "none"
    /\ plan = <<>>
    /\ cur = Call("start", NoArg)
    /\ calls = 0
    /\ emitted = 0
    /\ comtag = 0
    /\ fresh = FALSE
    /\ instrument = Answering
    /\ returned = FALSE

\* The instrument sends the next answer it owes.
device_answer ==
    /\ instrument.owed # <<>>
    /\ ~closed
    /\ rx = <<>>
    /\ rx' = <<Head(instrument.owed)>>
    /\ instrument' = [instrument EXCEPT !.owed = Tail(@)]
    /\ UNCHANGED <<running, state, delimiter, available, values, command,
                   output_format, datagram, lock, baudrate, closed, written,
                   pcR, packet, handler, plan, cur, calls, emitted, comtag,
                   fresh, returned>>

\* The instrument sends a reading between its answers.
device_reading ==
    /\ instrument.answers
    /\ emitted < MaxLines
    /\ ~closed
    /\ rx = <<>>
    /\ rx' = <<Line(Reading4 \o CRLF, 0)>>
    /\ emitted' = emitted + 1
    /\ UNCHANGED <<running, state, delimiter, available, values, command,
                   output_format, datagram, lock, baudrate, closed, written,
                   pcR, packet, handler, plan, cur, calls, comtag, fresh,
                   instrument, returned>>

\* The listener's steps.
ListenerLive ==
    \/ recv_while
    \/ recv_in_waiting
    \/ recv_acquire
    \/ recv_readline
    \/ recv_classify
    \/ recv_clear_command
    \/ recv_parse_packet
    \/ recv_parse_values
    \/ recv_publish

\* The steps of a call.
CallerLive ==
    \/ call_if_state
    \/ call_while_state
    \/ call_acquire
    \/ call_write
    \/ call_check_ack
    \/ call_set_state

NextLive ==
    \/ device_answer
    \/ device_reading
    \/ ListenerLive
    \/ CallerLive
    \/ config
    \/ interrupt
    \/ set_485_address
    \/ get_header
    \/ get_delimiter
    \/ set_run_mode

\* Both threads and the instrument keep going: a step that stays possible
\* is taken.
SpecLive ==
    /\ InitLive
    /\ [][NextLive]_vars
    /\ WF_vars(device_answer)
    /\ WF_vars(ListenerLive)
    /\ WF_vars(CallerLive)

\* The driver after start(), on an instrument that reports after each
\* answer.
InitReport ==
    /\ running = TRUE
    /\ state = FALSE
    /\ delimiter = <<>>
    /\ available = FALSE
    /\ values = <<>>
    /\ command = <<>>
    /\ output_format = <<>>
    /\ datagram = EmptyDatagram
    /\ lock = "free"
    /\ baudrate = 19200
    /\ closed = FALSE
    /\ rx = <<>>
    /\ written = <<>>
    /\ pcR = "while"
    /\ packet = NoLine
    /\ handler = "none"
    /\ plan = <<>>
    /\ cur = Call("start", NoArg)
    /\ calls = 0
    /\ emitted = 0
    /\ comtag = 0
    /\ fresh = FALSE
    /\ instrument = Reporting
    /\ returned = FALSE

\* The driver and an instrument that sends acknowledgement, then report.
SpecReport == InitReport /\ [][NextLive]_vars

\* --------------------------------------------- the driver once configured
\* The started driver in interrupt mode after get_delimiter() and
\* get_output_format() have returned: the listener stored "," and "CSV",
\* the last acknowledgement is the one of get_output_format.
InitSettled ==
    /\ running = TRUE
    /\ state = FALSE
    /\ delimiter = <<>>
    /\ available = FALSE
    /\ values = <<>>
    /\ command = C089
    /\ output_format = <<>>
    /\ datagram = Configured
    /\ lock = "free"
    /\ baudrate = 19200
    /\ closed = FALSE
    /\ rx = <<>>
    /\ written = <<>>
    /\ pcR = "while"
    /\ packet = NoLine
    /\ handler = "none"
    /\ plan = <<>>
    /\ cur = Call("get_output_format", NoArg)
    /\ calls = 0
    /\ emitted = 0
    /\ comtag = 0
    /\ fresh = FALSE
    /\ instrument = Unasked
    /\ returned = FALSE

\* Every operation of a started driver.
NextSettled ==
    \/ device_send
    \/ recv_while
    \/ recv_in_waiting
    \/ recv_acquire
    \/ recv_readline
    \/ recv_classify
    \/ recv_clear_command
    \/ recv_parse_packet
    \/ recv_parse_values
    \/ recv_publish
    \/ recv_close
    \/ stop
    \/ config
    \/ interrupt
    \/ continuous
    \/ single
    \/ set_485_address
    \/ get_485_address
    \/ get_header
    \/ set_address_mode
    \/ get_address_mode
    \/ get_last_result
    \/ set_delimiter
    \/ get_delimiter
    \/ set_run_mode
    \/ get_run_mode
    \/ get_version
    \/ get_serial
    \/ set_mode
    \/ get_mode
    \/ set_baud
    \/ set_output_format
    \/ get_output_format
    \/ set_startup_mode
    \/ set_485_mode
    \/ send_485_mode
    \/ get_measurements
    \/ call_if_state
    \/ call_while_state
    \/ call_acquire
    \/ call_write
    \/ call_check_ack
    \/ call_set_state
    \/ call_set_format
    \/ call_clear_available
    \/ call_return_values
    \/ call_stop
    \/ call_join
    \/ call_init
    \/ call_start

\* The configured driver and its caller.
SpecSettled == InitSettled /\ [][NextSettled]_vars
\* ------------------------------------------------------------------ claims
\* The request continuous(rate) is to write, by the instrument's manual.
RequestM(rate) ==
    <<"M", CASE rate = 1 -> "1" [] rate = 2 -> "2" [] rate = 4 -> "4"
             [] rate = 8 -> "8", "\r", "\n">>

\* C1: for every rate in {1,2,4,8}, the step of continuous(rate) that
\* touches ModeState leaves it Continuous, from whatever state it is called
\* in, and the call writes to the port exactly one request, the bytes
\* "M<rate>" and one CRLF, and nothing else.
C1_ContinuousRequest ==
    /\ [][(cur'.op = "continuous" /\ calls' = calls + 1
           /\ cur'.arg.n \in {1, 2, 4, 8}) => state' = TRUE]_vars
    /\ [](\A rate \in {1, 2, 4, 8} :
            (cur.op = "continuous" /\ cur.arg.n = rate) =>
                /\ written \in {<<>>, <<RequestM(rate)>>}
                /\ plan = <<>> => written = <<RequestM(rate)>>)

\* continuous(8) was called in read mode and in interrupt mode and has
\* returned.
C1_Witness ==
    /\ cur.op = "continuous"
    /\ cur.arg.n = 8
    /\ plan = <<>>
    /\ written = <<<<"M", "8", "\r", "\n">>>>
    /\ state

\* The getters that wait for their acknowledgement.
BlockingGetters ==
    {"get_485_address", "get_header", "get_address_mode", "get_last_result",
     "get_delimiter", "get_run_mode", "get_version", "get_serial", "get_mode",
     "get_output_format"}

\* C2: a blocking getter that has returned was released by an
\* acknowledgement line the device sent in answer to this call's request,
\* never by one left over from an earlier request with the same code.
C2_FreshAcknowledgement ==
    (cur.op \in BlockingGetters /\ plan = <<>>) => cur.acktag = calls

\* The driver's state, as the caller and the listener share it.
DriverState ==
    <<running, state, delimiter, available, values, command, output_format,
      datagram, baudrate>>

\* C3: interrupt() in interrupt mode writes nothing and changes nothing; in
\* read mode it writes one request, "#" and one CRLF, and has returned only
\* where the mode is interrupt mode, and during the call the mode is taken
\* back by the listener alone, on a line that begins with ">".
C3_Interrupt ==
    /\ [][(cur'.op = "interrupt" /\ calls' = calls + 1 /\ ~state) =>
            /\ plan' = <<>>
            /\ written' = <<>>
            /\ UNCHANGED DriverState]_vars
    /\ []((cur.op = "interrupt" /\ cur.was_state = "interrupt") =>
            plan = <<>> /\ written = <<>>)
    /\ []((cur.op = "interrupt" /\ cur.was_state = "read") =>
            /\ written \in {<<>>, <<<<"#", "\r", "\n">>>>}
            /\ plan = <<>> => (written = <<<<"#", "\r", "\n">>>> /\ ~state))
    /\ [][(cur.op = "interrupt" /\ state /\ ~state') =>
            /\ pcR = "classify"
            /\ pcR' = "clear_command"
            /\ Head(packet.bytes) = ">"]_vars

\* interrupt() was called in read mode and has returned.
C3_Witness ==
    /\ cur.op = "interrupt"
    /\ cur.was_state = "read"
    /\ plan = <<>>
    /\ written = <<<<"#", "\r", "\n">>>>
    /\ ~state
    /\ handler = "interrupt"

\* The listener is at a line that begins with ">" and is no acknowledgement.
AtInterruptNotice ==
    /\ pcR = "classify"
    /\ packet.bytes # <<>>
    /\ Head(packet.bytes) = ">"
    /\ ~com_regex(packet.bytes)

\* C4: the listener's handling of a line that begins with ">", taken in read
\* mode, sets interrupt mode and then empties the pending command, and
\* neither of its two writes touches the values, the flag or the datagram.
C4_InterruptNotice ==
    /\ [][(AtInterruptNotice /\ state /\ pcR' # pcR) =>
            /\ ~state'
            /\ pcR' = "clear_command"
            /\ UNCHANGED <<values, available, datagram>>]_vars
    /\ [][(pcR = "clear_command" /\ pcR' # pcR) =>
            /\ command' = <<>>
            /\ pcR' = "while"
            /\ UNCHANGED <<values, available, datagram>>]_vars

\* A line ">" was handled in read mode while a command was pending and a
\* reading was waiting to be taken.
C4_Witness ==
    /\ handler = "interrupt"
    /\ pcR = "while"
    /\ packet.bytes = <<">">>
    /\ command = <<>>
    /\ ~state
    /\ cur.op = "interrupt"
    /\ cur.was_state = "read"
    /\ Len(plan) = 1
    /\ available
    /\ values # <<>>

\* A call whose argument is outside its command's domain.
InvalidCall(c) ==
    \/ c.op = "set_baud" /\ c.arg.n \notin {2400, 4800, 9600, 19200, 38400}
    \/ c.op = "set_mode" /\ c.arg.n \notin {1, 2, 4, 8}
    \/ /\ c.op = "set_output_format"
       /\ c.arg \notin {IntArg(3), StrArg(<<"C", "S", "V">>),
                        StrArg(<<"S", "B">>), StrArg(<<"R", "E", "S">>)}

\* C5: set_baud, set_mode and set_output_format with an argument outside
\* their domains fail with an AssertionError, write no byte to the port, not
\* even the interrupt request, and leave every attribute as it was.
C5_InvalidArgument ==
    /\ [][(calls' = calls + 1 /\ InvalidCall(cur')) =>
            /\ cur'.result = "AssertionError"
            /\ plan' = <<>>
            /\ written' = <<>>
            /\ UNCHANGED DriverState]_vars
    /\ [](InvalidCall(cur) =>
            /\ cur.result = "AssertionError"
            /\ plan = <<>>
            /\ written = <<>>)

\* An invalid call was made in read mode, where a valid one would interrupt.
C5_Witness ==
    /\ InvalidCall(cur)
    /\ cur.result = "AssertionError"
    /\ state
    /\ written = <<>>

\* C6: continuous(rate) with a rate outside {1, 2, 4, 8} fails with an
\* invalid-argument condition, writes nothing and leaves the mode.
C6_RateRejected ==
    (cur.op = "continuous" /\ cur.arg.n \notin {1, 2, 4, 8}) =>
        cur.result = "AssertionError" /\ written = <<>>

\* C7: get_measurements returns the values and clears the flag exactly when
\* it found the flag set; when it found the flag clear it returns False and
\* changes nothing.  So of two get_measurements calls in a row with no
\* reading published between their reads of the flag, the second returns
\* False.
C7_GetMeasurements ==
    /\ [][(cur'.op = "get_measurements" /\ calls' = calls + 1) =>
            /\ available => (cur'.result = "values" /\ plan' # <<>>)
            /\ ~available =>
                   /\ cur'.result = "False"
                   /\ plan' = <<>>
                   /\ UNCHANGED DriverState]_vars
    /\ [][(cur.op = "get_measurements" /\ plan # <<>> /\ plan' = <<>>) =>
            cur'.ret = values]_vars
    /\ [][(available /\ ~available') =>
            (cur.op = "get_measurements" /\ cur.result = "values")]_vars
    /\ []((cur.op = "get_measurements" /\ cur.result = "values"
           /\ plan = <<>>) => (~available \/ fresh))
    /\ []((cur.op = "get_measurements" /\ cur.stale) =>
            cur.result = "False")

\* A reading was published and taken, and the next get_measurements, with
\* no reading in between, has returned False.
C7_Witness ==
    /\ cur.op = "get_measurements"
    /\ cur.stale
    /\ cur.result = "False"
    /\ plan = <<>>
    /\ calls = 2
    /\ values # <<>>
    /\ ~available

\* The four output formats.
FormatModes == {<<"3">>, <<"S", "B">>, <<"C", "S", "V">>, <<"R", "E", "S">>}

\* The fields of a line under the stored delimiter.
Fields(line, dg) == split(line, dg.delimiter).v

\* A line that splits into fields of which one is no number.
Malformed(line, dg) ==
    /\ split(line, dg.delimiter).ok
    /\ \E i \in 1..Len(Fields(line, dg)) : ~float(Fields(line, dg)[i]).ok

\* C8: in each of the four formats a measurement line with a field, at any
\* position, that is no number is dropped whole: the decoder leaves the
\* values as they were, the flag is not set for it, and the listener goes on
\* with its loop.
C8_MalformedDropped ==
    [][(/\ pcR = "parse_values"
        /\ pcR' # pcR
        /\ datagram.output_format \in FormatModes
        /\ Malformed(packet.bytes, datagram)) =>
            /\ values' = values
            /\ available' = available
            /\ pcR' = "while"]_vars

\* A line all of whose fields are numbers, four or more of them for RES.
WellFormed(line, dg) ==
    /\ split(line, dg.delimiter).ok
    /\ \A i \in 1..Len(Fields(line, dg)) : float(Fields(line, dg)[i]).ok
    /\ dg.output_format = <<"R", "E", "S">> => Len(Fields(line, dg)) >= 4

\* The field at the index i, counted from 0, as a number.
Number(line, dg, i) == float(Fields(line, dg)[i + 1]).v

\* The values a well-formed line is to give.
Reference(line, dg) ==
    LET n == Len(Fields(line, dg))
    IN  IF dg.output_format \in {<<"3">>, <<"S", "B">>}
        THEN [k \in 1..n |-> Number(line, dg, k - 1)]
        ELSE IF dg.output_format = <<"C", "S", "V">>
        THEN [k \in 1..((n + 2) \div 3) |-> Number(line, dg, 3 * (k - 1))]
        ELSE <<Number(line, dg, 2), Number(line, dg, 3)>>

\* C9: a well-formed measurement line decoded in read mode under the stored
\* format and delimiter leaves as the values the reference result, all
\* fields for 3 and SB, the fields 0, 3, 6, ... for CSV, the fields 2 and 3
\* for RES, in place of the values before, and the flag is set.
C9_Decode ==
    /\ [][(/\ pcR = "parse_values"
           /\ pcR' # pcR
           /\ datagram.output_format \in FormatModes
           /\ WellFormed(packet.bytes, datagram)) =>
               /\ values' = Reference(packet.bytes, datagram)
               /\ pcR' = "publish"]_vars
    /\ [][(/\ pcR = "publish"
           /\ pcR' # pcR
           /\ datagram.output_format \in FormatModes
           /\ WellFormed(packet.bytes, datagram)) =>
               /\ available'
               /\ values' = Reference(packet.bytes, datagram)]_vars

\* A second reading was decoded as CSV over the values of the first, which
\* get_measurements had returned.
C9_Witness ==
    /\ datagram.output_format = <<"C", "S", "V">>
    /\ datagram.delimiter = <<",">>
    /\ cur.op = "get_measurements"
    /\ cur.ret = <<<<1, 0>>, <<4, 0>>>>
    /\ packet.bytes = Reading7
    /\ handler = "measurement"
    /\ pcR = "while"
    /\ available
    /\ values = <<<<1, 0>>, <<4, 0>>, <<7, 0>>>>

\* C10: once set_output_format has set the format and the delimiter, the
\* format and the delimiter the decoder reads for a measurement line are
\* those.
C10_DecoderFormat ==
    (pcR = "parse_values" /\ output_format # <<>>) =>
        /\ datagram.output_format = output_format
        /\ datagram.delimiter = delimiter

\* C11: after single() wrote its request in interrupt mode, the pending
\* command is the single-reading request, so the listener hands the
\* instrument's reply to the value decoder and not to the registry, and the
\* reply changes no field of the datagram.
C11_SingleRouted ==
    [][(/\ cur.op = "single"
        /\ written # <<>>
        /\ pcR = "elif_not_state"
        /\ ~state
        /\ pcR' # pcR) =>
            /\ pcR' = "parse_values"
            /\ datagram' = datagram]_vars

\* The listener is about to hand an unclassified line to _parse_packet in
\* interrupt mode.
AtPayload == pcR = "elif_not_state" /\ ~state

\* C12: in interrupt mode an unclassified payload changes the datagram's
\* delimiter only when the pending command is "#027", and then the
\* delimiter becomes the payload without the quotes around it (a quoted
\* tab gives a tab); under any other pending command the payload leaves
\* the delimiter as it was.
C12_Delimiter ==
    [][(AtPayload /\ pcR' # pcR) =>
          IF command = <<"#", "0", "2", "7">>
          THEN /\ datagram'.delimiter = strip(packet.bytes, {"\""})
               /\ packet.bytes = <<"\"", "\t", "\"">> =>
                      datagram'.delimiter = <<"\t">>
          ELSE datagram'.delimiter = datagram.delimiter]_vars

\* The quoted tab arrived under "#027" where the delimiter was ",", and the
\* delimiter is the tab.
C12_Witness ==
    /\ command = <<"#", "0", "2", "7">>
    /\ handler = "registry"
    /\ pcR = "while"
    /\ packet.bytes = <<"\"", "\t", "\"">>
    /\ datagram.delimiter = <<"\t">>
    /\ datagram.output_format = <<"C", "S", "V">>

\* C13: a fault of a read in the listener's loop is passed over and does
\* not leave the lock held: the listener holds the lock only while it is at
\* its readline, so later reads and the caller's writes can take it.
C13_LockReleased == lock = "listener" => pcR = "readline"

\* C14: stop() on a running driver returns only when the listener thread
\* has ended and the port is closed, and after that the listener reads no
\* line and writes no attribute; stop() on a driver that is not running
\* does nothing.
C14_Stop ==
    /\ []((cur.op = "stop" /\ plan = <<>>) =>
            /\ ~running
            /\ pcR \in {"unstarted", "done"}
            /\ pcR = "done" => closed)
    /\ [][(cur.op = "stop" /\ pcR = "done") =>
            /\ pcR' = "done"
            /\ UNCHANGED <<DriverState, closed, rx, packet, handler, lock>>]_vars
    /\ [][(cur'.op = "stop" /\ calls' = calls + 1 /\ ~running) =>
            /\ plan' = <<>>
            /\ written' = <<>>
            /\ UNCHANGED <<DriverState, closed, rx, pcR, lock>>]_vars

\* stop() was called on the running driver in read mode and has returned.
C14_Witness ==
    /\ cur.op = "stop"
    /\ plan = <<>>
    /\ calls = 2
    /\ state
    /\ pcR = "done"
    /\ closed
    /\ ~running

\* C15: with both threads scheduled fairly and an instrument that answers
\* each request, every wait of the Command API ends: a call that has begun
\* returns, whatever lines the listener handles meanwhile.
C15_WaitsEnd == (plan # <<>>) ~> (plan = <<>>)

\* A getter called in read mode waited for the prompt and for its
\* acknowledgement, and has returned.
C15_Witness ==
    /\ cur.op = "get_header"
    /\ cur.was_state = "read"
    /\ plan = <<>>
    /\ cur.acktag = calls
    /\ written = <<<<"#", "\r", "\n">>, <<"#", "0", "0", "4", "\r", "\n">>>>

\* C16: in interrupt mode an unclassified payload that arrives while the
\* pending command is a code _LUT does not hold changes nothing: the
\* datagram, the values, the availability flag, the mode and the pending
\* command stay as they were, no exception leaves _parse_packet, and the
\* listener goes back to the head of its loop, still running.
C16_Unregistered ==
    [][(AtPayload /\ command # <<>> /\ command \notin LUTCodes /\ pcR' # pcR) =>
          /\ UNCHANGED <<datagram, values, available, state, command>>
          /\ UNCHANGED <<running, closed>>
          /\ handler' = "none"
          /\ pcR' = "while"]_vars

\* The payload "CSV" was handled under the pending "#082", which _LUT does
\* not hold, on a configured driver.
C16_Witness ==
    /\ command = <<"#", "0", "8", "2">>
    /\ ~state
    /\ packet.bytes = <<"C", "S", "V">>
    /\ pcR = "while"
    /\ handler = "none"
    /\ running
    /\ datagram.delimiter = <<",">>
    /\ datagram.last_result = <<>>

\* The listener's first tests on a line, in their order: an acknowledgement
\* only sets the pending command; otherwise a prompt only puts the driver
\* in interrupt mode and goes on to clear the pending command; otherwise a
\* line that starts with a digit in read mode goes to _parse_values; any
\* other line is left for the last branch.
ByPriority ==
    IF com_regex(packet.bytes)
    THEN /\ command' = com_group(packet.bytes)
         /\ handler' = "acknowledgement"
         /\ pcR' = "while"
         /\ UNCHANGED <<state, datagram, values, available>>
    ELSE IF int_regex(packet.bytes)
    THEN /\ ~state'
         /\ handler' = "interrupt"
         /\ pcR' = "clear_command"
         /\ UNCHANGED <<datagram, values, available>>
    ELSE /\ pcR' = IF state /\ num_regex(packet.bytes)
                   THEN "parse_values" ELSE "elif_not_state"
         /\ UNCHANGED <<state, command, datagram, values, available>>

\* C17: the listener tests each line as acknowledgement, then prompt, then
\* measurement, and every line that is none of the three is handed to
\* _parse_packet, so that each line gets exactly one of the four handlers.
C17_Classified ==
    [][/\ (pcR = "classify" /\ pcR' # pcR) => ByPriority
       /\ (pcR = "clear_command" /\ pcR' # pcR) =>
              /\ pcR' = "while"
              /\ UNCHANGED <<state, datagram, values, available>>
       /\ (pcR = "elif_not_state" /\ pcR' # pcR) => ~state]_vars

\* The fields both threads use.
Shared == <<datagram, state, command, values, available>>

\* C18: every access to the datagram, the mode, the pending command, the
\* values or the availability flag is made by a thread that holds the
\* lock; in particular every step that writes one of them is a step of the
\* caller taken while the caller holds the lock, or a step of the listener
\* taken while the listener holds it.
C18_UnderLock ==
    [][Shared' # Shared =>
          IF plan' # plan THEN lock = "caller" ELSE lock = "listener"]_vars

\* C19: the listener is between its acquire and its release, about to read
\* a line, only while it holds the lock; the caller is between its acquire
\* and its release, about to write, only while it holds the lock; so the
\* two are never there together.
C19_Exclusive ==
    /\ pcR = "readline" => lock = "listener"
    /\ Next_is("write") => lock = "caller"
    /\ ~(pcR = "readline" /\ Next_is("write"))

\* The listener holds the lock before its readline while the caller is at
\* the acquire of _send_pkt, with a request to write.
C19_Witness ==
    /\ pcR = "readline"
    /\ lock = "listener"
    /\ Next_is("acquire")
    /\ rx # <<>>

\* C20: the datagram changes only in the listener's _parse_packet; no step
\* of a Command API call changes it, so what the listener stored stays.
C20_ReceiverOnly ==
    [][datagram' # datagram =>
          /\ pcR = "elif_not_state"
          /\ pcR' = "while"
          /\ UNCHANGED <<plan, cur>>]_vars

\* A request that carries a code: "#" and three digits, then the rest.
IsCodeRequest(pkt) ==
    /\ Len(pkt) >= 4
    /\ pkt[1] = "#"
    /\ \A k \in 2..4 : pkt[k] \in Digits

\* C21: a request that carries a code is written only in interrupt mode,
\* by a call that went through interrupt() first (and, where it found the
\* driver in read mode, wrote "#" before anything else); the mode is still
\* interrupt mode when the write is done.
C21_WrittenInterrupted ==
    [][(/\ Len(written') = Len(written) + 1
        /\ IsCodeRequest(written'[Len(written')])) =>
          /\ ~state
          /\ ~state'
          /\ cur.was_state \in {"read", "interrupt"}
          /\ cur.was_state = "read" =>
                 /\ Len(written) >= 1
                 /\ written[1] = <<"#", "\r", "\n">>]_vars

\* get_header was called in read mode, sent "#", waited for the prompt and
\* then wrote "#004" in interrupt mode.
C21_Witness ==
    /\ cur.op = "get_header"
    /\ cur.was_state = "read"
    /\ written = <<<<"#", "\r", "\n">>, <<"#", "0", "0", "4", "\r", "\n">>>>
    /\ ~state
    /\ handler = "interrupt"

\* C22: get_measurements never returns values that an earlier
\* get_measurements has returned already and that no measurement line has
\* overwritten since: each decoded line is returned at most once.
C22_ReturnedOnce ==
    [][(Next_is("return_values") /\ plan' # plan) => ~returned]_vars

\* C23: the availability flag goes from false to true only when
\* _parse_values has just assigned to _values the values decoded from the
\* line in hand, whatever output format the datagram holds.
C23_FlagWithValues ==
    [][(~available /\ available') =>
          /\ assigns(packet.bytes, datagram)
          /\ values = parse_values(packet.bytes, datagram, <<>>).v]_vars

\* The datagram holds the instrument's report for the code.
Holds(code) ==
    IF code = C004
    THEN /\ <<"a">> \in DOMAIN datagram.header
         /\ datagram.header[<<"a">>] = <<"b">>
    ELSE IF code = C027
    THEN datagram.delimiter = <<",">>
    ELSE datagram[LUT(code).name] = Reported(code)

\* C24: on an instrument that sends acknowledgement, then report, a getter
\* that has returned finds its report in the datagram: the header entry
\* after get_header, the delimiter after get_delimiter, and every field
\* config fetches after config.
C24_Answered ==
    /\ (plan = <<>> /\ cur.op = "get_header") => Holds(C004)
    /\ (plan = <<>> /\ cur.op = "get_delimiter") => Holds(C027)
    /\ (plan = <<>> /\ cur.op = "config") =>
           \A code \in {C004, C002, C006, C015, C027, C029, C032, C040, C089} :
               Holds(code)

=============================================================================
